---- MODULE Spec2Model ----
(***************************************************************************)
(* Model of w3af's browser-side DOM analyzer (dom_analyzer.js): the        *)
(* _DOMAnalyzer singleton, its interception wrappers around setTimeout,    *)
(* setInterval and addEventListener, and its DOM scan for inline event     *)
(* handlers.                                                               *)
(*                                                                         *)
(* Conventions.  A JavaScript call either returns a value or throws; an    *)
(* operator that models a call which may throw yields a record with a      *)
(* "threw" field.  An attribute name is kept as the pair                   *)
(* <<its first two characters, the remaining characters>>, which is what   *)
(* String.prototype.substr(2) takes apart.  The page is a chain of         *)
(* elements 1..NumNodes, element 1 being the child of the document and     *)
(* element k+1 the child of element k, plus one text node.                 *)
(***************************************************************************)
EXTENDS Integers, Sequences, FiniteSets, TLC

VARIABLES
    pc,               \* "loading": the object literal is built, line 456 not yet run
    initialized,      \* _DOMAnalyzer.initialized
    set_timeouts,     \* _DOMAnalyzer.set_timeouts
    set_intervals,    \* _DOMAnalyzer.set_intervals
    event_listeners,  \* _DOMAnalyzer.event_listeners
    patch,            \* wrapper layers currently installed on each native entry point
    native_timers,    \* calls that reached the browser's own setTimeout / setInterval
    native_listeners, \* calls that reached the browser's own addEventListener
    dispatched,       \* events handed to element.dispatchEvent
    returned,         \* outcome of the most recent call, as seen by its caller
    dom,              \* the document
    uniq_in           \* argument of the most recent objectArrayUniq call

vars == <<pc, initialized, set_timeouts, set_intervals, event_listeners, patch,
          native_timers, native_listeners, dispatched, returned, dom, uniq_in>>

\* ------------------------------------------------------------------ bounds

\* Elements in the document.
NumNodes == 2
\* Attributes in the whole document.
MaxAttrs == 2
\* Page calls to wrapped entry points plus dispatches in one run.
MaxCalls == 2
\* Length of the arrays handed to objectArrayUniq on their own.
MaxUniqLen == 4

\* ------------------------------------------------------------------ values

\* Node references.  Elements are 1 .. NumNodes.
Window == -1
Document == 0
Null == -2
Nodes == 1 .. NumNodes
TextNode == NumNodes + 1

\* JavaScript values handed back to a caller.
Undefined == [type |-> "undefined", value |-> 0]
Number(n) == [type |-> "number", value |-> n]
Boolean(b) == [type |-> "boolean", value |-> b]
Array(a) == [type |-> "array", value |-> a]

Callbacks == {"cb1", "cb2"}
Delays == {0, 100}
EventTypes == {"click", "load"}
UseCapture == {FALSE, TRUE}

\* What the global name `event` (window.event) evaluates to: undefined
\* outside event handling, the Event object being handled inside it.
WindowEventValues == {"undefined", "[object Event]"}

Last(s) == s[Len(s)]

\* ------------------------------------------------------------------ the DOM

\* String.prototype.toLowerCase on the tag names in use.
toLowerCase(s) ==
    CASE s = "BODY" -> "body"
      [] s = "DIV" -> "div"
      [] s = "P" -> "p"
      [] OTHER -> s

TagNames == {"BODY", "DIV", "P"}

\* element.tagName: only elements have one.
tagName(d, element) ==
    IF element \in Nodes THEN d.tagName[element] ELSE "undefined"

\* element.nodeType
nodeType(element) ==
    CASE element \in Nodes -> 1
      [] element = TextNode -> 3
      [] element = Document -> 9
      [] OTHER -> 0  \* undefined; never stored, tagName fails first

\* elem.parentNode
parentNode(elem) ==
    CASE elem = TextNode -> NumNodes
      [] elem \in Nodes /\ elem > 1 -> elem - 1
      [] elem = 1 -> Document
      [] OTHER -> Null

\* selector_generator.getSelector(element): a locator for an element.
getSelector(element) ==
    IF element \in Nodes THEN <<"sel", element>> ELSE <<"sel", Null>>

Locators == {<<"sel", n>> : n \in 0 .. NumNodes}

\* document.querySelector(selector)
querySelector(selector) ==
    IF selector[2] \in Nodes THEN selector[2] ELSE Null

\* ------------------------------------------------------------------ interception

\* The browser's own setTimeout / setInterval: registers the timer and
\* returns its id.
nativeSetTimer(kind, timers, this_, function_, timeout) ==
    LET id == Len(timers) + 1 IN
    [timers |-> Append(timers, [kind |-> kind, this |-> this_,
                                function |-> function_,
                                timeout |-> timeout, id |-> id]),
     ret |-> Number(id)]

\* What is installed at window.setTimeout / window.setInterval after
\* `layers` runs of the override: each layer pushes a record, forwards to
\* the function it replaced and returns nothing.
RECURSIVE timerWrapper(_, _, _, _, _, _, _)
timerWrapper(layers, kind, records, timers, this_, function_, timeout) ==
    IF layers = 0
    THEN LET n == nativeSetTimer(kind, timers, this_, function_, timeout) IN
         [records |-> records, timers |-> n.timers, ret |-> n.ret]
    ELSE LET pushed == Append(records, [function |-> function_,
                                        timeout |-> timeout])
             inner == timerWrapper(layers - 1, kind, pushed, timers,
                                   this_, function_, timeout)
         IN [records |-> inner.records, timers |-> inner.timers,
             ret |-> Undefined]

\* storeEventListenerData(element, type, listener, useCapture)
storeEventListenerData(listeners, d, element, type, useCapture) ==
    LET selector == getSelector(element) IN
    IF tagName(d, element) = "undefined"
    THEN \* element.tagName.toLowerCase() on undefined: TypeError
         [threw |-> TRUE, listeners |-> listeners]
    ELSE [threw |-> FALSE,
          listeners |-> Append(listeners,
                               [tag_name |-> toLowerCase(tagName(d, element)),
                                node_type |-> nodeType(element),
                                selector |-> selector,
                                event_type |-> type,
                                use_capture |-> useCapture])]

\* The browser's own addEventListener.
nativeAddEventListener(registered, this_, type, useCapture) ==
    Append(registered, [target |-> this_, type |-> type,
                        use_capture |-> useCapture])

\* The first argument each wrapper hands to storeEventListenerData, and the
\* receiver it forwards with.
recordedElement(slot, this_) ==
    CASE slot = "window" -> Window
      [] slot = "document" -> Document
      [] OTHER -> this_

\* The second argument each wrapper hands to storeEventListenerData.
recordedType(slot, type, window_event) ==
    IF slot = "document" THEN window_event ELSE type

\* What is installed at window.addEventListener, document.addEventListener
\* or Node.prototype.addEventListener after `layers` runs of the override.
RECURSIVE listenerWrapper(_, _, _, _, _, _, _, _, _)
listenerWrapper(layers, slot, listeners, registered, d, this_, type, useCapture, window_event) ==
    IF layers = 0
    THEN [threw |-> FALSE, listeners |-> listeners,
          registered |-> nativeAddEventListener(registered, this_, type,
                                                useCapture)]
    ELSE LET stored == storeEventListenerData(listeners, d,
                           recordedElement(slot, this_),
                           recordedType(slot, type, window_event),
                           useCapture)
         IN IF stored.threw
            THEN [threw |-> TRUE, listeners |-> stored.listeners,
                  registered |-> registered]
            ELSE listenerWrapper(layers - 1, slot, stored.listeners,
                                 registered, d,
                                 recordedElement(slot, this_), type,
                                 useCapture, window_event)

\* override_addEventListener, override_setTimeout, override_setInterval:
\* each wraps whatever is installed at that moment.
override_all(p) ==
    [setTimeout |-> p.setTimeout + 1,
     setInterval |-> p.setInterval + 1,
     window |-> p.window + 1,
     document |-> p.document + 1,
     node |-> p.node + 1]

\* initialize(): the pair <<initialized, patch>> it leaves.
initialize_unguarded(init, p) == <<TRUE, override_all(p)>>

initialize(init, p) ==
    IF init THEN <<init, p>> ELSE <<TRUE, override_all(p)>>

\* ------------------------------------------------------------------ validity matrix

universally_valid_events ==
    {"click", "dblclick", "mousedown", "mousemove", "mouseout", "mouseover",
     "mouseup"}

elements_allowed_to_inherit_events_from_ancestors ==
    {"a", "div", "input", "textarea", "select", "form", "li", "span", "button"}

valid_events_per_element ==
    [tag \in {"body", "button", "form", "input", "label", "textarea", "select"} |->
        CASE tag = "body" -> {"load"}
          [] tag = "button" -> {"focus", "blur"}
          [] tag = "form" -> {"submit", "reset"}
          [] tag = "input" -> {"select", "change", "focus", "blur", "keydown",
                               "keypress", "keyup", "input"}
          [] tag = "label" -> {"focus", "blur"}
          [] tag = "textarea" -> {"select", "change", "focus", "blur", "keydown",
                                  "keypress", "keyup", "input"}
          [] tag = "select" -> {"change", "focus", "blur"}]

\* The filter applied to a candidate event name; accepting everything is
\* what a missing or inverted test would do.
eventIsValidForTagName_always(tag_name, attr_name) == TRUE

eventIsValidForTagName(tag_name, attr_name) ==
    IF attr_name \in universally_valid_events THEN TRUE
    ELSE IF tag_name \notin DOMAIN valid_events_per_element THEN FALSE
    ELSE attr_name \in valid_events_per_element[tag_name]

\* ------------------------------------------------------------------ liveness of an element

elementIsHidden_either(d, element) ==
    IF element = Null THEN TRUE
    ELSE d.offsetWidth[element] <= 0 \/ d.offsetHeight[element] <= 0

elementIsHidden(d, element) ==
    IF element = Null THEN TRUE
    ELSE IF d.offsetWidth[element] <= 0 /\ d.offsetHeight[element] <= 0 THEN TRUE
    ELSE FALSE

\* ------------------------------------------------------------------ extraction

\* attr_name.substr(2)
substr2(attr_name) == attr_name[2]

\* The for loop of extractEventsFromAttributes, from index attr_it on.
RECURSIVE attributeLoop(_, _, _, _, _)
attributeLoop(d, tag_name, element, attr_it, events) ==
    LET attributes == d.attributes[element] IN
    IF attr_it > Len(attributes) THEN events
    ELSE LET attr_name == substr2(attributes[attr_it].nodeName) IN
         IF ~eventIsValidForTagName(tag_name, attr_name)
         THEN attributeLoop(d, tag_name, element, attr_it + 1, events)
         ELSE attributeLoop(d, tag_name, element, attr_it + 1,
                  Append(events,
                         [tag_name |-> tag_name,
                          node_type |-> nodeType(element),
                          selector |-> getSelector(element),
                          event_type |-> attr_name,
                          handler |-> attributes[attr_it].nodeValue]))

extractEventsFromAttributes(d, tag_name, element) ==
    attributeLoop(d, tag_name, element, 1, <<>>)

\* getAncestors(elem, null): the loop starts at elem itself.
RECURSIVE getAncestors(_)
getAncestors(elem) ==
    IF elem = Null \/ elem = Document THEN <<>>
    ELSE <<elem>> \o getAncestors(parentNode(elem))

\* The inner loop of extractInheritedEvents: re-scope an ancestor's events.
rescope(d, tag_name, element, ancestor_attribute_events) ==
    [event_it \in 1 .. Len(ancestor_attribute_events) |->
        [ancestor_attribute_events[event_it] EXCEPT
            !.tag_name = tag_name,
            !.selector = getSelector(element),
            !.node_type = nodeType(element)]]

\* The outer loop of extractInheritedEvents, from index ancestor_it on.
RECURSIVE ancestorLoop(_, _, _, _, _, _)
ancestorLoop(d, tag_name, element, ancestors, ancestor_it, events) ==
    IF ancestor_it > Len(ancestors) THEN events
    ELSE LET ancestor_elem == ancestors[ancestor_it]
             ancestor_tag_name == toLowerCase(tagName(d, ancestor_elem))
             ancestor_attribute_events ==
                 extractEventsFromAttributes(d, ancestor_tag_name, ancestor_elem)
         IN IF Len(ancestor_attribute_events) = 0
            THEN ancestorLoop(d, tag_name, element, ancestors, ancestor_it + 1,
                              events)
            ELSE ancestorLoop(d, tag_name, element, ancestors, ancestor_it + 1,
                     events \o rescope(d, tag_name, element,
                                       ancestor_attribute_events))

extractInheritedEvents(d, tag_name, element) ==
    IF tag_name \notin elements_allowed_to_inherit_events_from_ancestors
    THEN <<>>
    ELSE ancestorLoop(d, tag_name, element, getAncestors(element), 1, <<>>)

\* ------------------------------------------------------------------ deduplication

\* JSON.stringify of a descriptor: its values in key order.
JSONstringify(o) ==
    <<o.tag_name, o.node_type, o.selector, o.event_type, o.handler>>

\* a.splice(j, 1)
splice1(a, j) == SubSeq(a, 1, j - 1) \o SubSeq(a, j + 1, Len(a))

\* The index the inner loop looks at next after a.splice(j--, 1) and ++j;
\* without the decrement it would skip the element that moved into place.
indexAfterSplice_skipping(j) == j + 1

indexAfterSplice(j) == j

RECURSIVE uniqInner(_, _, _)
uniqInner(a, i, j) ==
    IF j > Len(a) THEN a
    ELSE IF JSONstringify(a[i]) = JSONstringify(a[j])
         THEN uniqInner(splice1(a, j), i, indexAfterSplice(j))
         ELSE uniqInner(a, i, j + 1)

RECURSIVE uniqOuter(_, _)
uniqOuter(a, i) ==
    IF i > Len(a) THEN a ELSE uniqOuter(uniqInner(a, i, i + 1), i + 1)

\* objectArrayUniq(array): the array it was given, as the call leaves it,
\* and the array it returns.
objectArrayUniq(array) ==
    [array |-> array, a |-> uniqOuter(array, 1)]

\* ------------------------------------------------------------------ query and dispatch

\* filterByEventName(element_events, event_filter)
filterByEventName(element_events, event_filter) ==
    IF Len(event_filter) = 0 THEN element_events
    ELSE LET keep(event) ==
                 \E k \in 1 .. Len(event_filter) : event_filter[k] = event.event_type
         IN SelectSeq(element_events, keep)

\* The loop of getElementsWithEventHandlers over all_elements, from
\* index elem_it on; the document's elements in document order are 1, 2, ...
RECURSIVE elementLoop(_, _, _, _)
elementLoop(d, event_filter, elem_it, events) ==
    IF elem_it > NumNodes THEN events
    ELSE LET element == elem_it IN
         IF elementIsHidden(d, element)
         THEN elementLoop(d, event_filter, elem_it + 1, events)
         ELSE LET tag_name == toLowerCase(tagName(d, element))
                  attribute_events == extractEventsFromAttributes(d, tag_name, element)
                  inherited_events == extractInheritedEvents(d, tag_name, element)
                  element_events ==
                      objectArrayUniq(attribute_events \o inherited_events).a
              IN IF Len(element_events) = 0
                 THEN elementLoop(d, event_filter, elem_it + 1, events)
                 ELSE elementLoop(d, event_filter, elem_it + 1,
                          events \o filterByEventName(element_events, event_filter))

getElementsWithEventHandlers(d, event_filter) ==
    elementLoop(d, event_filter, 1, <<>>)

\* dispatchCustomEvent(selector, event_type): what it returns and the
\* dispatch log it leaves.
dispatchCustomEvent(d, log, selector, event_type) ==
    LET element == querySelector(selector) IN
    IF element = Null THEN [ret |-> FALSE, log |-> log]
    ELSE IF elementIsHidden(d, element) THEN [ret |-> FALSE, log |-> log]
    ELSE [ret |-> TRUE,
          log |-> Append(log, [target |-> element, type |-> event_type,
                               bubbles |-> TRUE, cancelable |-> TRUE])]

\* ------------------------------------------------------------------ documents

SeqsUpTo(S, n) == UNION {[1 .. k -> S] : k \in 0 .. n}

\* The attributes a page element may carry: inline handlers and attributes
\* that are not handlers.
Attrs ==
    {[nodeName |-> <<"on", "click">>, nodeValue |-> "x()"],
     [nodeName |-> <<"on", "click">>, nodeValue |-> "y()"],
     [nodeName |-> <<"on", "load">>, nodeValue |-> "x()"],
     [nodeName |-> <<"xx", "click">>, nodeValue |-> "x()"],
     [nodeName |-> <<"id", "">>, nodeValue |-> "main"]}

\* Attribute placements <<element, attribute>>, element by element, no
\* element carrying two attributes of one name.
Placements ==
    {pl \in SeqsUpTo(Nodes \X Attrs, MaxAttrs) :
        \A i, j \in 1 .. Len(pl) :
            i < j => /\ pl[i][1] <= pl[j][1]
                     /\ (pl[i][1] = pl[j][1] =>
                            pl[i][2].nodeName # pl[j][2].nodeName)}

RECURSIVE attributesOf(_, _)
attributesOf(pl, n) ==
    IF Len(pl) = 0 THEN <<>>
    ELSE (IF pl[1][1] = n THEN <<pl[1][2]>> ELSE <<>>) \o attributesOf(Tail(pl), n)

\* Rendered sizes: every element 1 x 1 but for at most one element, which
\* has one of the sizes in `odd`.
Sizes(odd) ==
    {sz \in [Nodes -> {0, 1} \X {0, 1}] :
        \E n \in Nodes : \A m \in Nodes \ {n} : sz[m] = <<1, 1>> /\ sz[n] \in odd \cup {<<1, 1>>}}

\* Rendered sizes: the outermost element of any size, the others 1 x 1.
PageSizes ==
    {[n \in Nodes |-> IF n = 1 THEN s ELSE <<1, 1>>] : s \in {0, 1} \X {0, 1}}

MakeDocument(tags, pl, sz) ==
    [tagName |-> tags,
     attributes |-> [n \in Nodes |-> attributesOf(pl, n)],
     offsetWidth |-> [n \in Nodes |-> sz[n][1]],
     offsetHeight |-> [n \in Nodes |-> sz[n][2]]]

\* ------------------------------------------------------------------ actions

Ret(op, threw, v) ==
    [op |-> op, threw |-> threw, type |-> v.type, value |-> v.value]

CallsMade == Len(native_timers) + Len(native_listeners) + Len(dispatched)

\* Line 456: the call the script makes when it is loaded.
LoadScript ==
    /\ pc = "loading"
    /\ pc' = "ready"
    /\ initialized' = initialize(initialized, patch)[1]
    /\ patch' = initialize(initialized, patch)[2]
    /\ UNCHANGED <<set_timeouts, set_intervals, event_listeners, native_timers,
                   native_listeners, dispatched, returned, dom, uniq_in>>

\* An explicit _DOMAnalyzer.initialize() by the driver.
Initialize ==
    /\ pc = "ready"
    /\ initialized' = initialize(initialized, patch)[1]
    /\ patch' = initialize(initialized, patch)[2]
    /\ returned' = Ret("initialize", FALSE, Undefined)
    /\ UNCHANGED <<pc, set_timeouts, set_intervals, event_listeners, native_timers,
                   native_listeners, dispatched, dom, uniq_in>>

\* The page calls window.setTimeout(function_, timeout).
SetTimeout(function_, timeout) ==
    /\ pc = "ready"
    /\ CallsMade < MaxCalls
    /\ LET r == timerWrapper(patch.setTimeout, "timeout", set_timeouts,
                             native_timers, Window, function_, timeout)
       IN /\ set_timeouts' = r.records
          /\ native_timers' = r.timers
          /\ returned' = Ret("setTimeout", FALSE, r.ret)
    /\ UNCHANGED <<pc, initialized, set_intervals, event_listeners, patch,
                   native_listeners, dispatched, dom, uniq_in>>

\* The page calls window.setInterval(function_, timeout).
SetInterval(function_, timeout) ==
    /\ pc = "ready"
    /\ CallsMade < MaxCalls
    /\ LET r == timerWrapper(patch.setInterval, "interval", set_intervals,
                             native_timers, Window, function_, timeout)
       IN /\ set_intervals' = r.records
          /\ native_timers' = r.timers
          /\ returned' = Ret("setInterval", FALSE, r.ret)
    /\ UNCHANGED <<pc, initialized, set_timeouts, event_listeners, patch,
                   native_listeners, dispatched, dom, uniq_in>>

\* The page calls target.addEventListener(type, listener, useCapture); the
\* property lookup picks the wrapper installed for that target.
AddEventListener(slot, layers, target, type, useCapture, window_event) ==
    /\ pc = "ready"
    /\ CallsMade < MaxCalls
    /\ LET r == listenerWrapper(layers, slot, event_listeners, native_listeners,
                                dom, target, type, useCapture, window_event)
       IN /\ event_listeners' = r.listeners
          /\ native_listeners' = r.registered
          /\ returned' = Ret("addEventListener", r.threw, Undefined)
    /\ UNCHANGED <<pc, initialized, set_timeouts, set_intervals, patch,
                   native_timers, dispatched, dom, uniq_in>>

WindowAddEventListener(type, useCapture, window_event) ==
    AddEventListener("window", patch.window, Window, type, useCapture, window_event)

DocumentAddEventListener(type, useCapture, window_event) ==
    AddEventListener("document", patch.document, Document, type, useCapture,
                     window_event)

NodeAddEventListener(node, type, useCapture, window_event) ==
    AddEventListener("node", patch.node, node, type, useCapture, window_event)

\* The driver calls _DOMAnalyzer.dispatchCustomEvent(selector, event_type).
DispatchCustomEvent(selector, event_type) ==
    /\ pc = "ready"
    /\ CallsMade < MaxCalls
    /\ LET r == dispatchCustomEvent(dom, dispatched, selector, event_type)
       IN /\ dispatched' = r.log
          /\ returned' = Ret("dispatchCustomEvent", FALSE, Boolean(r.ret))
    /\ UNCHANGED <<pc, initialized, set_timeouts, set_intervals, event_listeners,
                   patch, native_timers, native_listeners, dom, uniq_in>>

EventFilters == {<<>>, <<"click">>}

\* The driver calls _DOMAnalyzer.getElementsWithEventHandlers(event_filter).
GetElementsWithEventHandlers(event_filter) ==
    /\ pc = "ready"
    /\ returned' = Ret("getElementsWithEventHandlers", FALSE,
                       Array(getElementsWithEventHandlers(dom, event_filter)))
    /\ UNCHANGED <<pc, initialized, set_timeouts, set_intervals, event_listeners,
                   patch, native_timers, native_listeners, dispatched, dom, uniq_in>>

\* ------------------------------------------------------------------ the page and its driver

NoPatch == [setTimeout |-> 0, setInterval |-> 0, window |-> 0, document |-> 0,
            node |-> 0]

\* The page the interception runs in: every element a div, the outermost
\* one with an inline click handler.
PageDocuments ==
    {MakeDocument([n \in Nodes |-> "DIV"],
                  <<<<1, [nodeName |-> <<"on", "click">>, nodeValue |-> "x()"]>>>>,
                  sz) :
        sz \in PageSizes}

Init ==
    /\ pc = "loading"
    /\ initialized = FALSE
    /\ set_timeouts = <<>>
    /\ set_intervals = <<>>
    /\ event_listeners = <<>>
    /\ patch = NoPatch
    /\ native_timers = <<>>
    /\ native_listeners = <<>>
    /\ dispatched = <<>>
    /\ returned = Ret("none", FALSE, Undefined)
    /\ dom \in PageDocuments
    /\ uniq_in = <<>>

Next ==
    \/ LoadScript
    \/ Initialize
    \/ \E f \in Callbacks, t \in Delays : SetTimeout(f, t)
    \/ \E f \in Callbacks, t \in Delays : SetInterval(f, t)
    \/ \E ty \in EventTypes, uc \in UseCapture, ev \in WindowEventValues :
           WindowAddEventListener(ty, uc, ev)
    \/ \E ty \in EventTypes, uc \in UseCapture, ev \in WindowEventValues :
           DocumentAddEventListener(ty, uc, ev)
    \/ \E n \in Nodes \cup {TextNode}, ty \in EventTypes, uc \in UseCapture,
          ev \in WindowEventValues :
           NodeAddEventListener(n, ty, uc, ev)
    \/ \E sel \in Locators, ty \in EventTypes : DispatchCustomEvent(sel, ty)
    \/ \E flt \in EventFilters : GetElementsWithEventHandlers(flt)

Spec == Init /\ [][Next]_vars

\* ------------------------------------------------------------------ the extraction functions on their own

\* The driver or a test calls extractEventsFromAttributes on an element,
\* passing the element's lower-cased tag name as every caller does.
CallExtractEventsFromAttributes(element) ==
    /\ pc = "ready"
    /\ returned' = Ret("extractEventsFromAttributes", FALSE,
                       Array(extractEventsFromAttributes(dom,
                                 toLowerCase(tagName(dom, element)), element)))
    /\ UNCHANGED <<pc, initialized, set_timeouts, set_intervals, event_listeners,
                   patch, native_timers, native_listeners, dispatched, dom, uniq_in>>

CallExtractInheritedEvents(element) ==
    /\ pc = "ready"
    /\ returned' = Ret("extractInheritedEvents", FALSE,
                       Array(extractInheritedEvents(dom,
                                 toLowerCase(tagName(dom, element)), element)))
    /\ UNCHANGED <<pc, initialized, set_timeouts, set_intervals, event_listeners,
                   patch, native_timers, native_listeners, dispatched, dom, uniq_in>>

CallObjectArrayUniq ==
    /\ pc = "ready"
    /\ LET r == objectArrayUniq(uniq_in)
       IN /\ uniq_in' = r.array
          /\ returned' = Ret("objectArrayUniq", FALSE, Array(r.a))
    /\ UNCHANGED <<pc, initialized, set_timeouts, set_intervals, event_listeners,
                   patch, native_timers, native_listeners, dispatched, dom>>

\* The state the script load leaves, before any page call.
Loaded ==
    /\ pc = "ready"
    /\ initialized = initialize(FALSE, NoPatch)[1]
    /\ patch = initialize(FALSE, NoPatch)[2]
    /\ set_timeouts = <<>>
    /\ set_intervals = <<>>
    /\ event_listeners = <<>>
    /\ native_timers = <<>>
    /\ native_listeners = <<>>
    /\ dispatched = <<>>
    /\ returned = Ret("none", FALSE, Undefined)

InitDom ==
    /\ Loaded
    /\ uniq_in = <<>>
    /\ \E tags \in [Nodes -> TagNames], pl \in Placements, sz \in Sizes({<<0, 0>>}) :
           dom = MakeDocument(tags, pl, sz)

NextDom ==
    \/ \E e \in Nodes : CallExtractEventsFromAttributes(e)
    \/ \E e \in Nodes : CallExtractInheritedEvents(e)
    \/ \E flt \in EventFilters : GetElementsWithEventHandlers(flt)

SpecDom == InitDom /\ [][NextDom]_vars

\* Descriptors that differ from one another in a single field.
UniqDescriptors ==
    {[tag_name |-> "div", node_type |-> 1, selector |-> <<"sel", 1>>,
      event_type |-> "click", handler |-> "x()"],
     [tag_name |-> "div", node_type |-> 1, selector |-> <<"sel", 1>>,
      event_type |-> "click", handler |-> "y()"],
     [tag_name |-> "div", node_type |-> 1, selector |-> <<"sel", 1>>,
      event_type |-> "load", handler |-> "x()"]}

InitUniq ==
    /\ Loaded
    /\ dom \in {MakeDocument([n \in Nodes |-> "DIV"], <<>>,
                             [n \in Nodes |-> <<1, 1>>])}
    /\ uniq_in \in SeqsUpTo(UniqDescriptors, MaxUniqLen)

NextUniq == CallObjectArrayUniq

SpecUniq == InitUniq /\ [][NextUniq]_vars

\* ------------------------------------------------------------------ properties

IsPrefix(s, t) == Len(s) <= Len(t) /\ SubSeq(t, 1, Len(s)) = s

RecordCount == Len(set_timeouts) + Len(set_intervals) + Len(event_listeners)

NativeCount == Len(native_timers) + Len(native_listeners)

TimerCall ==
    \/ \E f \in Callbacks, t \in Delays : SetTimeout(f, t)
    \/ \E f \in Callbacks, t \in Delays : SetInterval(f, t)

ListenerCall ==
    \E ty \in EventTypes, uc \in UseCapture, ev \in WindowEventValues :
        \/ WindowAddEventListener(ty, uc, ev)
        \/ DocumentAddEventListener(ty, uc, ev)
        \/ \E n \in Nodes \cup {TextNode} : NodeAddEventListener(n, ty, uc, ev)

WrappedOnce == patch = override_all(NoPatch)

\* C1: once the script has been loaded, however many initialize() calls
\* follow, every entry point carries exactly one wrapper, and every page
\* call to a wrapped entry point appends exactly one record and reaches the
\* original implementation exactly once.
C1_WrappedOnceOneRecordOneForward ==
    [][/\ pc = "ready" => WrappedOnce
       /\ (TimerCall \/ ListenerCall) =>
             /\ RecordCount' = RecordCount + 1
             /\ NativeCount' = NativeCount + 1]_vars

\* C2: every wrapper hands the original the same receiver and arguments and
\* gives the caller what the original returned: the timer id for
\* setTimeout and setInterval, undefined for addEventListener.
C2_WrapperForwardsAndReturnsOriginalResult ==
    [][/\ \A f \in Callbacks, t \in Delays :
            SetTimeout(f, t) =>
                LET n == nativeSetTimer("timeout", native_timers, Window, f, t)
                IN /\ native_timers' = n.timers
                   /\ returned' = Ret("setTimeout", FALSE, n.ret)
       /\ \A f \in Callbacks, t \in Delays :
            SetInterval(f, t) =>
                LET n == nativeSetTimer("interval", native_timers, Window, f, t)
                IN /\ native_timers' = n.timers
                   /\ returned' = Ret("setInterval", FALSE, n.ret)
       /\ \A ty \in EventTypes, uc \in UseCapture, ev \in WindowEventValues :
            /\ WindowAddEventListener(ty, uc, ev) =>
                  /\ native_listeners' =
                         nativeAddEventListener(native_listeners, Window, ty, uc)
                  /\ returned' = Ret("addEventListener", FALSE, Undefined)
            /\ DocumentAddEventListener(ty, uc, ev) =>
                  /\ native_listeners' =
                         nativeAddEventListener(native_listeners, Document, ty, uc)
                  /\ returned' = Ret("addEventListener", FALSE, Undefined)
            /\ \A n \in Nodes \cup {TextNode} :
                  NodeAddEventListener(n, ty, uc, ev) =>
                      /\ native_listeners' =
                             nativeAddEventListener(native_listeners, n, ty, uc)
                      /\ returned' = Ret("addEventListener", FALSE, Undefined)]_vars

\* C3: every listener registration, whatever its target, appends exactly
\* one Listener Record and then reaches the original addEventListener
\* exactly once, without failing.
C3_EveryRegistrationRecordedAndForwarded ==
    [][ListenerCall =>
          /\ Len(event_listeners') = Len(event_listeners) + 1
          /\ IsPrefix(event_listeners, event_listeners')
          /\ Len(native_listeners') = Len(native_listeners) + 1
          /\ ~returned'.threw]_vars

\* C4: a registration on the document stores a Listener Record whose event
\* type is the type argument of that call, whatever window.event is.
C4_DocumentRecordHasOwnType ==
    [][\A ty \in EventTypes, uc \in UseCapture, ev \in WindowEventValues :
          DocumentAddEventListener(ty, uc, ev) =>
              /\ recordedType("document", ty, ev) = ty
              /\ Len(event_listeners') = Len(event_listeners) + 1
              /\ Last(event_listeners').event_type = ty]_vars

\* C5: the three record lists only grow at the end; a setTimeout call
\* appends exactly its {callback, delay} record to the timeout list and
\* leaves the other two alone, a setInterval call does the same for the
\* interval list, and initialize, the query and dispatchCustomEvent leave
\* all three lists as they were.  (The step out of pc = "loading" is the
\* script's own initialize(); every later call leaves its name in
\* returned.op.)
C5_ListsAppendOnly ==
    [][/\ IsPrefix(set_timeouts, set_timeouts')
       /\ IsPrefix(set_intervals, set_intervals')
       /\ IsPrefix(event_listeners, event_listeners')
       /\ \A f \in Callbacks, t \in Delays :
            /\ SetTimeout(f, t) =>
                  /\ set_timeouts' =
                         Append(set_timeouts, [function |-> f, timeout |-> t])
                  /\ UNCHANGED <<set_intervals, event_listeners>>
            /\ SetInterval(f, t) =>
                  /\ set_intervals' =
                         Append(set_intervals, [function |-> f, timeout |-> t])
                  /\ UNCHANGED <<set_timeouts, event_listeners>>
       /\ (\/ pc = "loading"
           \/ returned'.op \in {"initialize", "getElementsWithEventHandlers",
                                "dispatchCustomEvent"})
             => UNCHANGED <<set_timeouts, set_intervals, event_listeners>>]_vars

\* Both lists hold records and an initialize() call has just returned.
C5_Witness ==
    /\ Len(set_timeouts) >= 1
    /\ Len(set_intervals) >= 1
    /\ returned.op = "initialize"

\* The locator resolves to an element that is not hidden: not both of its
\* rendered width and height are non-positive.
ResolvesToVisible(selector) ==
    /\ selector[2] \in Nodes
    /\ ~(dom.offsetWidth[selector[2]] <= 0 /\ dom.offsetHeight[selector[2]] <= 0)

\* C6: dispatchCustomEvent returns true exactly when the locator resolves
\* to an element that is not hidden; when it returns false nothing is
\* dispatched and no state changes; when it returns true exactly one
\* bubbling, cancelable event of the given type is dispatched on the
\* resolved element.
C6_DispatchIffVisible ==
    [][\A sel \in Locators, ty \in EventTypes :
          DispatchCustomEvent(sel, ty) =>
              /\ returned'.value = ResolvesToVisible(sel)
              /\ ~returned'.value =>
                    UNCHANGED <<pc, initialized, set_timeouts, set_intervals,
                                event_listeners, patch, native_timers,
                                native_listeners, dispatched, dom>>
              /\ returned'.value =>
                    dispatched' = Append(dispatched,
                                         [target |-> sel[2], type |-> ty,
                                          bubbles |-> TRUE,
                                          cancelable |-> TRUE])]_vars

\* dispatchCustomEvent has returned true for an element whose rendered
\* width is zero and whose height is not, and the event is in the log.
C6_Witness ==
    /\ returned.op = "dispatchCustomEvent"
    /\ returned.value = TRUE
    /\ Len(dispatched) >= 1
    /\ dom.offsetWidth[Last(dispatched).target] = 0

\* The validity matrix read as a relation: the event type is universally
\* valid, or the tag name has an allow-list that holds it.
MatrixAccepts(tag_name, event_type) ==
    \/ event_type \in universally_valid_events
    \/ /\ tag_name \in DOMAIN valid_events_per_element
       /\ event_type \in valid_events_per_element[tag_name]

\* The script is loaded and each entry point carries one wrapper, whatever
\* the number of initialize() calls so far.
InitializeIsIdempotent == pc = "ready" => initialized /\ WrappedOnce

\* The proper ancestors of an element, nearest first, stopping before the
\* document.
RECURSIVE ProperAncestors(_)
ProperAncestors(element) ==
    IF parentNode(element) \in Nodes
    THEN <<parentNode(element)>> \o ProperAncestors(parentNode(element))
    ELSE <<>>

RECURSIVE InheritedFrom(_, _, _)
InheritedFrom(element, ancestors, k) ==
    IF k > Len(ancestors) THEN <<>>
    ELSE rescope(dom, toLowerCase(tagName(dom, element)), element,
                 extractEventsFromAttributes(dom,
                     toLowerCase(tagName(dom, ancestors[k])), ancestors[k]))
         \o InheritedFrom(element, ancestors, k + 1)

\* C7: for an element whose tag is on the allow-list, extractInheritedEvents
\* returns exactly the descriptors of its proper ancestors' attributes,
\* nearest ancestor first, re-scoped to the element; for any other element
\* it returns the empty sequence.
C7_InheritedEventsComeFromProperAncestors ==
    [][\A e \in Nodes :
          CallExtractInheritedEvents(e) =>
              returned'.value =
                  IF toLowerCase(tagName(dom, e)) \in
                         elements_allowed_to_inherit_events_from_ancestors
                  THEN InheritedFrom(e, ProperAncestors(e), 1)
                  ELSE <<>>]_vars

\* An attribute is a handler attribute of an element when its name is "on"
\* followed by an event type that is valid for the element's tag.
IsHandlerAttribute(element, attr) ==
    /\ attr.nodeName[1] = "on"
    /\ MatrixAccepts(toLowerCase(tagName(dom, element)), attr.nodeName[2])

\* C8: extractEventsFromAttributes emits a descriptor for the handler
\* attributes of the element and for no other attribute.
C8_OnlyHandlerAttributesEmit ==
    [][\A e \in Nodes :
          CallExtractEventsFromAttributes(e) =>
              Len(returned'.value) =
                  Cardinality({i \in 1 .. Len(dom.attributes[e]) :
                                  IsHandlerAttribute(e, dom.attributes[e][i])})]_vars

\* The elements of s in order, each kept at its first occurrence only.
RECURSIVE FirstOccurrences(_)
FirstOccurrences(s) ==
    IF Len(s) = 0 THEN <<>>
    ELSE LET front == FirstOccurrences(SubSeq(s, 1, Len(s) - 1))
         IN IF \E k \in 1 .. Len(s) - 1 : s[k] = Last(s)
            THEN front
            ELSE Append(front, Last(s))

\* C9: objectArrayUniq returns every distinct descriptor of its argument
\* exactly once, at the place of its first occurrence, so that no two
\* descriptors of the result are equal; it leaves its argument as it was;
\* and applied to its own result it changes nothing.
C9_UniqKeepsFirstOccurrences ==
    [][CallObjectArrayUniq =>
          LET out == returned'.value IN
          /\ out = FirstOccurrences(uniq_in)
          /\ \A i, j \in 1 .. Len(out) : i # j => out[i] # out[j]
          /\ uniq_in' = uniq_in
          /\ objectArrayUniq(out).a = out]_vars

\* objectArrayUniq has been given an array with three equal descriptors in
\* a row and a descriptor that differs from them in its handler only, and
\* has returned a shorter array holding both.
C9_Witness ==
    /\ returned.op = "objectArrayUniq"
    /\ \E i \in 1 .. Len(uniq_in) - 2 :
           uniq_in[i] = uniq_in[i + 1] /\ uniq_in[i + 1] = uniq_in[i + 2]
    /\ \E i, j \in 1 .. Len(returned.value) :
           /\ returned.value[i].handler # returned.value[j].handler
           /\ returned.value[i].event_type = returned.value[j].event_type
    /\ Len(returned.value) < Len(uniq_in)

\* C10 as stated: every descriptor the query returns pairs its tag name
\* with an event type the validity matrix accepts for that tag name.
C10_DescriptorValidForOwnTag ==
    returned.op = "getElementsWithEventHandlers" =>
        \A k \in 1 .. Len(returned.value) :
            MatrixAccepts(returned.value[k].tag_name,
                                   returned.value[k].event_type)

\* C10 as amended: every descriptor the query returns carries the tag name
\* of the element its locator names, and its event type is accepted by the
\* validity matrix for the tag name of the element the attribute was read
\* from: that element itself or, when its tag is on the inheritance
\* allow-list, one of its ancestors.
C10_DescriptorValidForCarrierTag ==
    returned.op = "getElementsWithEventHandlers" =>
        \A k \in 1 .. Len(returned.value) :
            LET desc == returned.value[k]
                element == querySelector(desc.selector)
                above == ProperAncestors(element)
            IN /\ element \in Nodes
               /\ desc.tag_name = toLowerCase(tagName(dom, element))
               /\ \/ MatrixAccepts(desc.tag_name, desc.event_type)
                  \/ /\ desc.tag_name \in
                            elements_allowed_to_inherit_events_from_ancestors
                     /\ \E a \in 1 .. Len(above) :
                            MatrixAccepts(
                                toLowerCase(tagName(dom, above[a])),
                                desc.event_type)

\* The query has returned a descriptor whose event type is valid for an
\* ancestor's tag but not for the tag name the descriptor carries.
C10_Witness ==
    /\ returned.op = "getElementsWithEventHandlers"
    /\ \E k \in 1 .. Len(returned.value) :
           ~MatrixAccepts(returned.value[k].tag_name,
                                   returned.value[k].event_type)

====
